---- MODULE Spec2Model ----
(***************************************************************************)
(* Model of buffer/src/nativeInterop/cinterop/simdutf_wrapper.cpp: the     *)
(* C-linkage wrappers around simdutf (validate, UTF-16 length, UTF-8 to    *)
(* UTF-16LE conversion) and the UTF-8 boundary scanner                     *)
(* buf_simdutf_utf8_find_boundary.                                         *)
(*                                                                         *)
(* A byte buffer is a sequence of integers 0..255.  C index i (0-based) is *)
(* element i + 1 of the sequence.  The bit tests of the source are written *)
(* as integer divisions: (b & 0xC0) == 0x80 is b \div 64 = 2, and so on.   *)
(***************************************************************************)
EXTENDS Integers, Sequences, FiniteSets

VARIABLES
    input,      \* Spec: the byte buffer handed to the wrapper (length = Len(input))
    op,         \* Spec: which wrapper has been called on input ("none" before)
    ret,        \* Spec: the wrapper's return value
    trace,      \* Spec: what the boundary scan did (indices read, iterations, branch)
    output,     \* Spec: the UTF-16 code units the transcoder wrote
    stream,     \* SpecStream/SpecSplit: the whole valid UTF-8 byte stream
    pos,        \* number of stream bytes the caller has consumed
    carry,      \* bytes[boundary..length) held back for the next chunk
    emitted,    \* concatenation of every prefix emitted so far
    bytes,      \* the buffer of the last call: carry \o chunk
    boundary,   \* the last call's return value
    nfeeds      \* number of chunks processed

vars == <<input, op, ret, trace, output,
          stream, pos, carry, emitted, bytes, boundary, nfeeds>>

---------------------------------------------------------------------------
(* Bounds and the byte alphabet.                                           *)

\* Longest buffer handed to a wrapper in Spec.  The scan window is 4 bytes,
\* so length 5 is the first with check_start > 0.
MaxLen == 5

\* Longest stream in SpecStream and SpecSplit.
MaxStream == 6

\* Representative bytes, one or two of each class the code distinguishes:
\* 0x61 ASCII; 0x82, 0xAC continuation; 0xC3 2-byte lead; 0xE2 3-byte lead;
\* 0xF0 4-byte lead (0xF0 0x82 .. is overlong, 0xF0 0xAC .. is not);
\* 0xF8 a byte that is neither a continuation nor a lead.
Bytes == {97, 130, 172, 195, 226, 240, 248}

\* buffer[lo..hi) in C indices.
Slice(s, lo, hi) == SubSeq(s, lo + 1, hi)

Buffers(n) == UNION {[1..k -> Bytes] : k \in 0..n}

---------------------------------------------------------------------------
(* simdutf, the library the wrappers delegate to.                          *)

IsContinuationByte(b) == b \in 128..191

\* Allowed second byte after lead b (no overlong forms, no surrogates, no
\* code point above U+10FFFF).
SecondByteRange(b) ==
    CASE b = 224 -> 160..191
      [] b = 237 -> 128..159
      [] b = 240 -> 144..191
      [] b = 244 -> 128..143
      [] OTHER   -> 128..191

\* Byte length of the well-formed sequence starting at 1-based index i of s,
\* or 0 when none starts there.
WellFormedAt(s, i) ==
    LET b == s[i]
        n == Len(s)
    IN  IF b < 128 THEN 1
        ELSE IF b \in 194..223
            THEN IF i + 1 <= n /\ IsContinuationByte(s[i + 1]) THEN 2 ELSE 0
        ELSE IF b \in 224..239
            THEN IF i + 2 <= n /\ s[i + 1] \in SecondByteRange(b)
                    /\ IsContinuationByte(s[i + 2]) THEN 3 ELSE 0
        ELSE IF b \in 240..244
            THEN IF i + 3 <= n /\ s[i + 1] \in SecondByteRange(b)
                    /\ IsContinuationByte(s[i + 2])
                    /\ IsContinuationByte(s[i + 3]) THEN 4 ELSE 0
        ELSE 0

RECURSIVE ValidFrom(_, _)
ValidFrom(s, i) ==
    IF i > Len(s) THEN TRUE
    ELSE LET k == WellFormedAt(s, i)
         IN  k # 0 /\ ValidFrom(s, i + k)

simdutf_validate_utf8(s) == ValidFrom(s, 1)

\* One unit for every byte that starts a code point, one more for every
\* lead of a 4-byte sequence.
RECURSIVE CountUnits(_, _)
CountUnits(s, i) ==
    IF i > Len(s) THEN 0
    ELSE (IF IsContinuationByte(s[i]) THEN 0 ELSE 1)
         + (IF s[i] >= 240 THEN 1 ELSE 0)
         + CountUnits(s, i + 1)

simdutf_utf16_length_from_utf8(s) == CountUnits(s, 1)

\* The code point encoded by the k-byte sequence at 1-based index i.
CodePointAt(s, i, k) ==
    CASE k = 1 -> s[i]
      [] k = 2 -> (s[i] - 192) * 64 + (s[i + 1] - 128)
      [] k = 3 -> (s[i] - 224) * 4096 + (s[i + 1] - 128) * 64 + (s[i + 2] - 128)
      [] k = 4 -> (s[i] - 240) * 262144 + (s[i + 1] - 128) * 4096
                  + (s[i + 2] - 128) * 64 + (s[i + 3] - 128)

\* One 16-bit unit, or a surrogate pair for a code point >= U+10000.
Utf16Units(cp) ==
    IF cp < 65536 THEN <<cp>>
    ELSE << 55296 + ((cp - 65536) \div 1024), 56320 + ((cp - 65536) % 1024) >>

RECURSIVE TranscodeFrom(_, _)
TranscodeFrom(s, i) ==
    IF i > Len(s) THEN <<>>
    ELSE LET k == WellFormedAt(s, i)
         IN  Utf16Units(CodePointAt(s, i, k)) \o TranscodeFrom(s, i + k)

\* The units written to the output buffer, for valid input.
simdutf_convert_utf8_to_utf16le(s) == TranscodeFrom(s, 1)

---------------------------------------------------------------------------
(* The wrappers.                                                           *)

buf_simdutf_validate_utf8(buf, len) ==
    IF simdutf_validate_utf8(Slice(buf, 0, len)) THEN 1 ELSE 0

\* Returns the units written and their count.
buf_simdutf_convert_utf8_to_utf16le(buf, length) ==
    LET out == simdutf_convert_utf8_to_utf16le(Slice(buf, 0, length))
    IN  [count |-> Len(out), output |-> out]

\* A wrapper that reports the byte length instead of the unit count.
utf16_length_as_byte_length(buf, length) == length

buf_simdutf_utf16_length_from_utf8(buf, length) ==
    simdutf_utf16_length_from_utf8(Slice(buf, 0, length))

buf_simdutf_convert_utf8_to_chararray(buf, length) ==
    LET out == simdutf_convert_utf8_to_utf16le(Slice(buf, 0, length))
    IN  [count |-> Len(out), output |-> out]

---------------------------------------------------------------------------
(* buf_simdutf_utf8_find_boundary.                                         *)

\* buffer[i], read as unsigned char.
At(buffer, i) == buffer[i + 1]

\* A scan that never takes the fast path.
no_fast_path(b) == FALSE

\* The comparison made on a signed char: every byte >= 0x80 is negative and
\* passes the test.
is_ascii_last_signed(b) == TRUE

\* if ((unsigned char)buffer[length - 1] < 0x80)
is_ascii_last(b) == b < 128

\* A scan window of 5 bytes instead of 4.
check_start_window5(length) == IF length > 5 THEN length - 5 ELSE 0

\* size_t check_start = length > 4 ? length - 4 : 0;
check_start(length) == IF length > 4 THEN length - 4 ELSE 0

\* (b & 0xC0) != 0x80: b is not a continuation byte 10xxxxxx.
is_lead(b) == (b \div 64) # 2

\* The masks of the 3-byte and 4-byte tests swapped with the 2-byte one:
\* every lead >= 0xC0 taken for a 2-byte lead.
seq_len_all_two(b) ==
    IF b < 128 THEN 1 ELSE 2

\* The if / else-if chain that sets seq_len; 0 stands for the final else,
\* the invalid lead byte, which returns before seq_len is used.
seq_len(b) ==
    IF b < 128 THEN 1
    ELSE IF (b \div 32) = 6 THEN 2
    ELSE IF (b \div 16) = 14 THEN 3
    ELSE IF (b \div 8) = 30 THEN 4
    ELSE 0

\* seq_len < available instead of seq_len <= available.
sequence_complete_strict(sl, available) == sl < available

\* if ((size_t)seq_len <= available)
sequence_complete(sl, available) == sl <= available

\* The result of a call: the return value, the indices read, the number of
\* loop iterations executed, the return statement taken, and the index and
\* seq_len of the lead byte found (-1 and 0 when none was classified).
Outcome(r, rd, n, br, li, sl) ==
    [ret |-> r, reads |-> rd, iters |-> n, branch |-> br, lead |-> li, seq_len |-> sl]

\* for (size_t i = length; i > check_start; ) { i--; ... } return check_start;
\* i0 is the value of i when the loop condition is tested, rd the indices
\* read so far.
RECURSIVE backward_scan(_, _, _, _, _)
backward_scan(buffer, length, cs, i0, rd) ==
    IF ~(i0 > cs)
    THEN Outcome(cs, rd, length - i0, "all_continuation", -1, 0)
    ELSE LET i   == i0 - 1
             b   == At(buffer, i)
             rd2 == rd \cup {i}
             n   == length - i
         IN  IF is_lead(b)
             THEN LET sl        == seq_len(b)
                      available == length - i
                  IN  IF sl = 0
                      THEN Outcome(i, rd2, n, "invalid_lead", i, 0)
                      ELSE IF sequence_complete(sl, available)
                      THEN Outcome(length, rd2, n, "complete", i, sl)
                      ELSE Outcome(i, rd2, n, "incomplete", i, sl)
             ELSE backward_scan(buffer, length, cs, i, rd2)

\* The whole function, instrumented.
find_boundary_run(buffer, length) ==
    IF length = 0
    THEN Outcome(0, {}, 0, "empty", -1, 0)
    ELSE IF is_ascii_last(At(buffer, length - 1))
    THEN Outcome(length, {length - 1}, 0, "fast_path", -1, 0)
    ELSE backward_scan(buffer, length, check_start(length), length, {length - 1})

buf_simdutf_utf8_find_boundary(buffer, length) ==
    find_boundary_run(buffer, length).ret

---------------------------------------------------------------------------
(* Spec: each wrapper applied to an arbitrary buffer.                      *)

NoTrace == Outcome(0, {}, 0, "none", -1, 0)

StreamIdle ==
    /\ stream = <<>> /\ pos = 0 /\ carry = <<>> /\ emitted = <<>>
    /\ bytes = <<>> /\ boundary = 0 /\ nfeeds = 0

StreamVars == <<stream, pos, carry, emitted, bytes, boundary, nfeeds>>

Init ==
    /\ input \in Buffers(MaxLen)
    /\ op = "none"
    /\ ret = 0
    /\ trace = NoTrace
    /\ output = <<>>
    /\ StreamIdle

CallValidate ==
    /\ op = "none"
    /\ op' = "validate_utf8"
    /\ ret' = buf_simdutf_validate_utf8(input, Len(input))
    /\ UNCHANGED <<input, trace, output, StreamVars>>

CallFindBoundary ==
    /\ op = "none"
    /\ op' = "utf8_find_boundary"
    /\ trace' = find_boundary_run(input, Len(input))
    /\ ret' = buf_simdutf_utf8_find_boundary(input, Len(input))
    /\ UNCHANGED <<input, output, StreamVars>>

\* The size estimator and the transcoders require valid UTF-8.
CallUtf16Length ==
    /\ op = "none"
    /\ simdutf_validate_utf8(input)
    /\ op' = "utf16_length_from_utf8"
    /\ ret' = buf_simdutf_utf16_length_from_utf8(input, Len(input))
    /\ UNCHANGED <<input, trace, output, StreamVars>>

CallConvertUtf16le ==
    /\ op = "none"
    /\ simdutf_validate_utf8(input)
    /\ op' = "convert_utf8_to_utf16le"
    /\ LET r == buf_simdutf_convert_utf8_to_utf16le(input, Len(input))
       IN  ret' = r.count /\ output' = r.output
    /\ UNCHANGED <<input, trace, StreamVars>>

CallConvertChararray ==
    /\ op = "none"
    /\ simdutf_validate_utf8(input)
    /\ op' = "convert_utf8_to_chararray"
    /\ LET r == buf_simdutf_convert_utf8_to_chararray(input, Len(input))
       IN  ret' = r.count /\ output' = r.output
    /\ UNCHANGED <<input, trace, StreamVars>>

Next ==
    \/ CallValidate
    \/ CallFindBoundary
    \/ CallUtf16Length
    \/ CallConvertUtf16le
    \/ CallConvertChararray

Spec == Init /\ [][Next]_vars

---------------------------------------------------------------------------
(* SpecStream and SpecSplit: the caller of the boundary scanner.  It       *)
(* prepends the carried bytes to the next chunk, calls the scanner, emits  *)
(* bytes[0..boundary) and re-buffers bytes[boundary..length).              *)

\* The well-formed encodings of one code point over Bytes.
CodePointSeqs ==
    {c \in Buffers(4) : Len(c) >= 1 /\ WellFormedAt(c, 1) = Len(c)}

\* The valid UTF-8 strings of exactly n bytes over Bytes.
RECURSIVE ValidStringsOfLen(_)
ValidStringsOfLen(n) ==
    IF n = 0 THEN {<<>>}
    ELSE UNION {{c \o t : t \in ValidStringsOfLen(n - Len(c))} :
                c \in {d \in CodePointSeqs : Len(d) <= n}}

ValidStreams == UNION {ValidStringsOfLen(n) : n \in 0..MaxStream}

WrapperIdle ==
    /\ input = <<>> /\ op = "none" /\ ret = 0 /\ trace = NoTrace /\ output = <<>>

WrapperVars == <<input, op, ret, trace, output>>

InitStream ==
    /\ stream \in ValidStreams
    /\ pos = 0
    /\ carry = <<>>
    /\ emitted = <<>>
    /\ bytes = <<>>
    /\ boundary = 0
    /\ nfeeds = 0
    /\ WrapperIdle

\* The caller takes the next n bytes of the stream as a chunk.
Feed(n) ==
    LET chunk == Slice(stream, pos, pos + n)
        buf   == carry \o chunk
        b     == buf_simdutf_utf8_find_boundary(buf, Len(buf))
    IN  /\ bytes' = buf
        /\ boundary' = b
        /\ emitted' = emitted \o Slice(buf, 0, b)
        /\ carry' = Slice(buf, b, Len(buf))
        /\ pos' = pos + n
        /\ nfeeds' = nfeeds + 1
        /\ UNCHANGED <<stream, WrapperVars>>

\* A stream cut into an arbitrary sequence of non-empty chunks.
FeedChunk == \E n \in 1..(Len(stream) - pos) : Feed(n)

SpecStream == InitStream /\ [][FeedChunk]_vars

\* A string split once, at an arbitrary offset k in [0, len]; the scanner is
\* applied to the first piece.
SplitAt == nfeeds = 0 /\ \E k \in 0..Len(stream) : Feed(k)

SpecSplit == InitStream /\ [][SplitAt]_vars

---------------------------------------------------------------------------
(* Vocabulary of the properties.  None of it uses the scanner's own        *)
(* definitions: byte classes are written out as ranges.                    *)

Max(a, b) == IF a >= b THEN a ELSE b

MaxOf(S) == CHOOSE x \in S : \A y \in S : y <= x

Called == op = "utf8_find_boundary"

IsValid(s) == simdutf_validate_utf8(s)

\* The sequence length a byte announces by its high bits: 1 for 0xxxxxxx,
\* 2 for 110xxxxx, 3 for 1110xxxx, 4 for 11110xxx, 0 for anything else.
PatternLen(b) ==
    CASE b \in 0..127   -> 1
      [] b \in 192..223 -> 2
      [] b \in 224..239 -> 3
      [] b \in 240..247 -> 4
      [] OTHER          -> 0

\* 0-based offsets at which the code points of the valid string s start.
RECURSIVE StartsFrom(_, _)
StartsFrom(s, i) ==
    IF i > Len(s) THEN {}
    ELSE {i - 1} \cup StartsFrom(s, i + WellFormedAt(s, i))

Starts(s) == StartsFrom(s, 1)

\* Offset k lies strictly inside a multi-byte code point of s.
CutsInside(s, k) == k \in 1..(Len(s) - 1) /\ k \notin Starts(s)

\* Start offset of the code point of s that contains offset k.
CodePointStart(s, k) == MaxOf({j \in Starts(s) : j < k})

\* t is a proper, non-empty prefix of a well-formed multi-byte sequence.
IncompletePrefix(t) ==
    /\ Len(t) \in 1..3
    /\ LET b    == t[1]
           need == IF b \in 194..223 THEN 2
                   ELSE IF b \in 224..239 THEN 3
                   ELSE IF b \in 240..244 THEN 4 ELSE 0
       IN  /\ Len(t) < need
           /\ Len(t) >= 2 => t[2] \in SecondByteRange(b)
           /\ Len(t) >= 3 => t[3] \in 128..191

\* s is a valid UTF-8 string cut at an arbitrary byte offset.
ValidPrefix(s) ==
    \E j \in 0..Len(s) :
        /\ IsValid(Slice(s, 0, j))
        /\ j = Len(s) \/ IncompletePrefix(Slice(s, j, Len(s)))

\* Offset p of s comes immediately after a complete UTF-8 sequence.
AfterComplete(s, p) ==
    \E j \in 0..(p - 1) : WellFormedAt(Slice(s, 0, p), j + 1) = p - j

\* Offset p of s comes immediately before an incomplete sequence: a
\* multi-byte lead followed to the end by fewer continuation bytes than it
\* announces.
BeforeIncomplete(s, p) ==
    /\ p < Len(s)
    /\ PatternLen(At(s, p)) >= 2
    /\ \A j \in (p + 1)..(Len(s) - 1) : At(s, j) \in 128..191
    /\ PatternLen(At(s, p)) > Len(s) - p

\* The final few (up to 4) byte indices of s.
TailIdx(s) == Max(0, Len(s) - 4)..(Len(s) - 1)

\* Index of the last non-continuation byte in the tail of s, -1 if none.
LastLead(s) ==
    LET L == {j \in TailIdx(s) : At(s, j) \notin 128..191}
    IN  IF L = {} THEN -1 ELSE MaxOf(L)

\* s ends with a truncated multi-byte sequence.
TruncatedTrailing(s) == \E p \in TailIdx(s) : BeforeIncomplete(s, p)

\* s has an invalid lead byte among its final few bytes.
InvalidLeadInTail(s) ==
    \E j \in TailIdx(s) : At(s, j) \notin 128..191 /\ PatternLen(At(s, j)) = 0

Clean(s) == ~TruncatedTrailing(s) /\ ~InvalidLeadInTail(s)

LargestClean(s) == MaxOf({b \in 0..Len(s) : Clean(Slice(s, 0, b))})

\* UTF-16 units of the valid string s: 2 per code point >= U+10000, 1 per
\* other code point.
RECURSIVE ExpectedUnits(_, _)
ExpectedUnits(s, i) ==
    IF i > Len(s) THEN 0
    ELSE LET k == WellFormedAt(s, i)
         IN  (IF CodePointAt(s, i, k) >= 65536 THEN 2 ELSE 1)
             + ExpectedUnits(s, i + k)

\* The pieces of the last Feed.
Prefix == Slice(bytes, 0, boundary)

Second == Slice(stream, pos, Len(stream))

---------------------------------------------------------------------------
(* Properties.                                                             *)

\* C1 (SpecSplit): when a valid UTF-8 string s is cut at an offset k
\* strictly inside a multi-byte code point, the scanner applied to s[0:k]
\* returns the start offset of that code point; [0x61, 0xE2, 0x82] gives 1.
C1_TruncationCorrect ==
    (nfeeds = 1 /\ CutsInside(stream, pos))
        => /\ bytes = Slice(stream, 0, pos)
           /\ boundary = CodePointStart(stream, pos)
           /\ bytes = <<97, 226, 130>> => boundary = 1

C1_Witness ==
    /\ nfeeds = 1
    /\ stream = <<97, 226, 130, 172>>
    /\ pos = 3
    /\ boundary = 1

\* C2 (SpecSplit): splitting a valid UTF-8 string s at any offset k in
\* [0, len(s)] and scanning s[0:k]: the emitted prefix s[0:b) is valid
\* UTF-8, the carried remainder s[b:k) followed by the second piece s[k:)
\* is valid UTF-8, and prefix + remainder + second piece is s.
C2_Reassembly ==
    nfeeds = 1
        => /\ bytes = Slice(stream, 0, pos)
           /\ carry = Slice(stream, boundary, pos)
           /\ IsValid(Prefix)
           /\ IsValid(carry \o Second)
           /\ Prefix \o carry \o Second = stream

C2_Witness ==
    /\ nfeeds = 1
    /\ boundary > 0
    /\ Len(carry) = 3
    /\ Second # <<>>

\* C3 (Spec): on a buffer that is valid UTF-8 in its entirety (the empty
\* buffer included) the scanner returns length; so a result below length
\* means the chunk is not valid UTF-8.
C3_FullSequences ==
    Called => /\ IsValid(input) => ret = Len(input)
              /\ ret < Len(input) => buf_simdutf_validate_utf8(input, Len(input)) = 0

C3_Witness ==
    /\ Called
    /\ IsValid(input)
    /\ Len(input) = 5
    /\ At(input, 4) >= 128
    /\ ret = 5

\* C4 (Spec): for every buffer, valid or not, the result b satisfies
\* max(0, length - 4) <= b <= length.
C4_InRange ==
    Called => /\ Max(0, Len(input) - 4) <= ret
              /\ ret <= Len(input)

C4_Witness ==
    /\ Called
    /\ ~IsValid(input)
    /\ Len(input) = 5
    /\ ret = 1

\* C5 as stated (Spec): for every input the returned offset is 0, length,
\* or a position immediately after a complete UTF-8 sequence and
\* immediately before an incomplete one.
C5_AsStated ==
    Called => \/ ret = 0
              \/ ret = Len(input)
              \/ AfterComplete(input, ret) /\ BeforeIncomplete(input, ret)

\* C5 amended (Spec): when the chunk is a valid UTF-8 string cut at an
\* arbitrary offset, the returned offset is 0, length, or a position
\* immediately after a complete sequence and immediately before an
\* incomplete one.  For every input it is length, or max(0, length - 4)
\* with nothing but continuation bytes from there to the end, or the index
\* of the last non-continuation byte, which is then either no lead at all
\* or a lead announcing more bytes than remain.
C5_OffsetShape ==
    Called =>
        /\ ValidPrefix(input)
            => \/ ret = 0
               \/ ret = Len(input)
               \/ AfterComplete(input, ret) /\ BeforeIncomplete(input, ret)
        /\ \/ ret = Len(input)
           \/ /\ ret = Max(0, Len(input) - 4)
              /\ LastLead(input) = -1
           \/ /\ ret = LastLead(input)
              /\ \/ PatternLen(At(input, ret)) = 0
                 \/ PatternLen(At(input, ret)) > Len(input) - ret

C5_Witness ==
    /\ Called
    /\ ret \notin {0, Len(input)}
    /\ AfterComplete(input, ret)
    /\ PatternLen(At(input, ret)) = 0

\* C6 as stated (Spec): for every chunk the result is the largest prefix
\* length b such that bytes[0..b) has no truncated trailing multi-byte
\* sequence and no invalid lead byte in its final (up to 4) bytes.
C6_AsStated ==
    Called => ret = LargestClean(input)

\* C6 amended (Spec): when the chunk is a valid UTF-8 string cut at an
\* arbitrary offset, the result is the largest prefix length b such that
\* bytes[0..b) has no truncated trailing multi-byte sequence and no invalid
\* lead byte in its final bytes.  For every chunk only the last
\* non-continuation byte of the final 4 bytes decides: the result is length
\* exactly when the chunk is empty or that byte exists and announces a
\* sequence that fits in the bytes from it to the end, whatever precedes it.
C6_LargestPrefix ==
    Called =>
        /\ ValidPrefix(input) => ret = LargestClean(input)
        /\ ret = Len(input)
            <=> \/ Len(input) = 0
                \/ /\ LastLead(input) # -1
                   /\ PatternLen(At(input, LastLead(input)))
                        \in 1..(Len(input) - LastLead(input))

C6_Witness ==
    /\ Called
    /\ ret = Len(input)
    /\ InvalidLeadInTail(input)
    /\ ~Clean(Slice(input, 0, ret))

\* C7 (Spec): for valid UTF-8 input the number of code units either
\* transcoder wrapper writes equals the size estimator's count for the same
\* input: 2 units per code point >= U+10000, 1 per other code point;
\* [0xE2, 0x82, 0xAC] gives the single unit 0x20AC.
C7_RoundTripSizing ==
    op \in {"convert_utf8_to_utf16le", "convert_utf8_to_chararray"}
        => /\ ret = buf_simdutf_utf16_length_from_utf8(input, Len(input))
           /\ Len(output) = ret
           /\ ret = ExpectedUnits(input, 1)
           /\ input = <<226, 130, 172>> => output = <<8364>>

C7_Witness ==
    /\ op = "convert_utf8_to_chararray"
    /\ input = <<97, 240, 172, 130, 130>>
    /\ ret = 3
    /\ Len(output) = 3

\* C8 (Spec): the scanner reads the buffer only at indices in
\* [max(0, length - 4), length), reads nothing when length is 0, runs at
\* most 4 iterations of the backward loop, always returns, and never
\* writes to the buffer.
C8_State ==
    /\ Called
        => /\ trace.reads \subseteq Max(0, Len(input) - 4)..(Len(input) - 1)
           /\ Len(input) = 0 => trace.reads = {}
           /\ trace.iters \in 0..4
           /\ trace.ret = ret
    /\ op = "none" => ENABLED CallFindBoundary

C8_BoundedReads == [](C8_State) /\ [][input' = input]_vars

C8_Witness ==
    /\ Called
    /\ Len(input) = 5
    /\ trace.iters = 4
    /\ trace.reads = {1, 2, 3, 4}

\* C9 (SpecStream): a valid UTF-8 stream is cut into non-empty chunks; the
\* caller prepends the carry, scans, emits bytes[0..boundary) and carries
\* the rest.  After every step the emitted prefix is valid UTF-8, the carry
\* is at most 3 bytes and is a proper incomplete prefix of one code point
\* (or empty), everything emitted plus the carry is the stream consumed so
\* far, and the carry is empty once the last chunk has been processed.
C9_Streaming ==
    nfeeds >= 1
        => /\ IsValid(Prefix)
           /\ IsValid(emitted)
           /\ Len(carry) <= 3
           /\ carry # <<>>
                => /\ IncompletePrefix(carry)
                   /\ CutsInside(stream, pos)
                   /\ pos - Len(carry) = CodePointStart(stream, pos)
           /\ carry = <<>> => ~CutsInside(stream, pos)
           /\ emitted \o carry = Slice(stream, 0, pos)
           /\ pos = Len(stream) => carry = <<>>

C9_Witness ==
    /\ nfeeds = 3
    /\ Len(carry) = 3
    /\ Len(bytes) = 3
    /\ emitted # <<>>

\* C10 as stated (Spec): in the backward walk the first non-continuation
\* byte found is never classified as ASCII; the seq_len = 1 branch is
\* unreachable for every input.
C10_AsStated ==
    Called => trace.seq_len # 1

\* C10 amended (Spec): the byte the walk examines first, the last byte, is
\* never ASCII.  The seq_len = 1 branch is taken exactly when the last byte
\* is a continuation byte and the last non-continuation byte of the final 4
\* bytes is ASCII; it is then found at the second iteration or later, the
\* chunk is not a cut valid UTF-8 string, and the result is length.  On a
\* valid UTF-8 string cut anywhere the branch is never taken.
C10_AsciiBranch ==
    Called =>
        /\ trace.iters >= 1 => At(input, Len(input) - 1) >= 128
        /\ trace.seq_len = 1
            <=> /\ Len(input) >= 2
                /\ At(input, Len(input) - 1) \in 128..191
                /\ LastLead(input) # -1
                /\ At(input, LastLead(input)) < 128
        /\ trace.seq_len = 1
            => /\ trace.iters >= 2
               /\ trace.lead = LastLead(input)
               /\ ret = Len(input)
               /\ ~ValidPrefix(input)

C10_Witness ==
    /\ Called
    /\ trace.seq_len = 1
    /\ input = <<97, 130>>
    /\ ret = 2

====
